---- MODULE Spec2Model ----
(***************************************************************************)
(* Model of scripts/voice_emotion_analysis.py: the start-up imports, the   *)
(* command-line entry point and extract_prosodic_features.                  *)
(*                                                                          *)
(* The signal-processing library is the environment: each of its calls      *)
(* either raises or returns a value drawn from a small set.  Floating-point *)
(* values are kept exact: a rational, the square root of a rational, a      *)
(* quotient of those, or one of the IEEE specials NaN and Infinity, with    *)
(* numpy's rules for the undefined cases (0/0, mean of nothing).            *)
(***************************************************************************)
EXTENDS Integers, Sequences, FiniteSets, TLC

(***************************************************************************)
(* Bounds of the model.                                                     *)
(***************************************************************************)
MaxArgs == 2
MaxRuns == 2

(***************************************************************************)
(* Program constants.                                                       *)
(***************************************************************************)
ContourLimit == 100
FMin == 50
FMax == 400

(***************************************************************************)
(* Floating-point values.                                                   *)
(***************************************************************************)
RECURSIVE GCD(_, _)
GCD(a, b) == IF b = 0 THEN a ELSE GCD(b, a % b)

Abs(n) == IF n < 0 THEN -n ELSE n

NaN == [k |-> "nan"]

Inf(s) == [k |-> "inf", sign |-> s]

\* n / d for integers n and d > 0, in lowest terms
Rat(n, d) ==
    LET g == GCD(Abs(n), d)
    IN  [k |-> "rat", num |-> n \div g, den |-> d \div g]

Float(n) == Rat(n, 1)

IsNaN(x) == x.k = "nan"

IsInf(x) == x.k = "inf"

IsFinite(x) == x.k \in {"rat", "sqrt", "quot"}

IsZero(x) == x.k = "rat" /\ x.num = 0

Sign(x) ==
    IF x.k = "inf" THEN x.sign
    ELSE IF x.k = "rat" THEN (IF x.num < 0 THEN -1 ELSE 1)
    ELSE IF x.k = "quot" THEN x.sign
    ELSE 1

Add(a, b) ==
    IF IsNaN(a) \/ IsNaN(b) THEN NaN
    ELSE LET l == (a.den \div GCD(a.den, b.den)) * b.den
         IN  Rat(a.num * (l \div a.den) + b.num * (l \div b.den), l)

Sub(a, b) ==
    IF IsNaN(a) \/ IsNaN(b) THEN NaN
    ELSE Add(a, Rat(-b.num, b.den))

Mul(a, b) ==
    IF IsNaN(a) \/ IsNaN(b) THEN NaN
    ELSE Rat(a.num * b.num, a.den * b.den)

\* the non-negative square root of a value that is >= 0 or NaN
Sqrt(x) ==
    IF IsNaN(x) THEN NaN
    ELSE IF IsZero(x) THEN Float(0)
    ELSE [k |-> "sqrt", of |-> x]

\* numpy's true division of two scalars: a warning, never an exception
Div(a, b) ==
    IF IsNaN(a) \/ IsNaN(b) THEN NaN
    ELSE IF IsInf(a) THEN (IF IsInf(b) THEN NaN ELSE Inf(Sign(a) * Sign(b)))
    ELSE IF IsInf(b) THEN Float(0)
    ELSE IF IsZero(b) THEN (IF IsZero(a) THEN NaN ELSE Inf(Sign(a)))
    ELSE IF IsZero(a) THEN Float(0)
    ELSE IF a.k = "rat" /\ b.k = "rat"
         THEN Rat(Sign(b) * a.num * b.den, a.den * Abs(b.num))
    ELSE [k |-> "quot", n |-> a, d |-> b, sign |-> Sign(a) * Sign(b)]

(***************************************************************************)
(* numpy arrays: sequences of values.  The samples of the model are whole   *)
(* numbers of the unit (Hz, amplitude step, frame) or NaN.                  *)
(***************************************************************************)
Min(a, b) == IF a < b THEN a ELSE b

\* Mutant of Take: one element too many.
TakeOneMore(a, n) == SubSeq(a, 1, Min(n + 1, Len(a)))

\* a[:n]
Take(a, n) == SubSeq(a, 1, Min(n, Len(a)))

\* Sequences run to hundreds of frames: what walks one splits it in halves.
\* a[mask]: the elements of a at the positions where mask is TRUE, in order
RECURSIVE MaskRange(_, _, _, _)
MaskRange(a, mask, lo, hi) ==
    IF lo > hi THEN <<>>
    ELSE IF lo = hi THEN (IF mask[lo] THEN <<a[lo]>> ELSE <<>>)
    ELSE LET mid == (lo + hi) \div 2
         IN  MaskRange(a, mask, lo, mid) \o MaskRange(a, mask, mid + 1, hi)

\* Mutant of Mask: the mask is ignored.
MaskIgnored(a, mask) == a

Mask(a, mask) == MaskRange(a, mask, 1, Len(a))

AnyNaN(a) == \E i \in 1..Len(a) : IsNaN(a[i])

RECURSIVE IntSumRange(_, _, _)
IntSumRange(a, lo, hi) ==
    IF lo > hi THEN 0
    ELSE IF lo = hi THEN a[lo].num
    ELSE LET mid == (lo + hi) \div 2
         IN  IntSumRange(a, lo, mid) + IntSumRange(a, mid + 1, hi)

IntSum(a) == IntSumRange(a, 1, Len(a))

IntSumSq(a) == IntSum([i \in 1..Len(a) |-> Float(a[i].num * a[i].num)])

IntMax(a) ==
    LET S == {a[i].num : i \in 1..Len(a)}
    IN  CHOOSE m \in S : \A z \in S : z <= m

IntMin(a) ==
    LET S == {a[i].num : i \in 1..Len(a)}
    IN  CHOOSE m \in S : \A z \in S : m <= z

\* np.mean: NaN (and a warning) for an empty array
NpMean(a) ==
    IF AnyNaN(a) THEN NaN
    ELSE Div(Float(IntSum(a)), Float(Len(a)))

\* np.var: the mean of the squared deviations from the mean
NpVar(a) ==
    IF AnyNaN(a) \/ Len(a) = 0 THEN NaN
    ELSE LET n == Len(a)
             s == IntSum(a)
         IN  Rat(n * IntSumSq(a) - s * s, n * n)

\* np.std
NpStd(a) == Sqrt(NpVar(a))

\* np.ptp of a non-empty array: max - min
NpPtp(a) ==
    IF AnyNaN(a) THEN NaN
    ELSE Float(IntMax(a) - IntMin(a))

\* np.diff: a[i+1] - a[i]
NpDiff(a) ==
    IF Len(a) < 2 THEN <<>>
    ELSE [i \in 1..(Len(a) - 1) |-> Sub(a[i + 1], a[i])]

\* a ** 2
NpSquare(a) == [i \in 1..Len(a) |-> Mul(a[i], a[i])]

(***************************************************************************)
(* Python values: None, float (a value above), list, and dict, which keeps  *)
(* its items in insertion order.                                            *)
(***************************************************************************)
PyNone == [k |-> "None"]

PyList(elems) == [k |-> "list", elems |-> elems]

PyDict(items) == [k |-> "dict", items |-> items]

Item(key, val) == [key |-> key, val |-> val]

\* a.tolist()
ToList(a) == PyList(a)

\* the keys of a dict, as a set
Keys(d) == {d.items[i].key : i \in 1..Len(d.items)}

\* d[key]
Get(d, key) ==
    LET i == CHOOSE j \in 1..Len(d.items) : d.items[j].key = key
    IN  d.items[i].val

\* bool(v), for the values a function result can be here
Truthy(v) == v.k = "dict" /\ Len(v.items) > 0

(***************************************************************************)
(* json.dumps and json.loads, over the token sequence of the text (white    *)
(* space, which indent=2 adds, separates tokens and is not kept).  With the *)
(* default allow_nan, dumps writes NaN and Infinity for the IEEE specials   *)
(* and loads reads them back.                                               *)
(***************************************************************************)
Tok(t) == [t |-> t]

StrTok(s) == [t |-> "str", s |-> s]

NumTok(v) == [t |-> "num", v |-> v]

RECURSIVE Dumps(_)
RECURSIVE DumpItems(_, _)
RECURSIVE DumpElems(_, _, _)
Dumps(v) ==
    CASE v.k = "dict" -> <<Tok("{")>> \o DumpItems(v.items, 1) \o <<Tok("}")>>
      [] v.k = "list" ->
            <<Tok("[")>> \o DumpElems(v.elems, 1, Len(v.elems)) \o <<Tok("]")>>
      [] v.k = "None" -> <<Tok("null")>>
      [] v.k = "nan" -> <<Tok("NaN")>>
      [] v.k = "inf" ->
            <<Tok(IF v.sign < 0 THEN "-Infinity" ELSE "Infinity")>>
      [] OTHER -> <<NumTok(v)>>

DumpItems(items, i) ==
    IF i > Len(items) THEN <<>>
    ELSE (IF i > 1 THEN <<Tok(",")>> ELSE <<>>)
         \o <<StrTok(items[i].key), Tok(":")>>
         \o Dumps(items[i].val)
         \o DumpItems(items, i + 1)

\* elements lo..hi, a comma before each but the first of the list
DumpElems(elems, lo, hi) ==
    IF lo > hi THEN <<>>
    ELSE IF lo = hi
         THEN (IF lo > 1 THEN <<Tok(",")>> ELSE <<>>) \o Dumps(elems[lo])
    ELSE LET mid == (lo + hi) \div 2
         IN  DumpElems(elems, lo, mid) \o DumpElems(elems, mid + 1, hi)

\* The nesting level before each of the tokens lo..hi (base: before lo), and
\* the level after hi.
RECURSIVE Levels(_, _, _, _)
Levels(toks, lo, hi, base) ==
    IF lo = hi
    THEN [lv |-> <<base>>,
          after |-> base + (IF toks[lo].t \in {"{", "["} THEN 1
                            ELSE IF toks[lo].t \in {"}", "]"} THEN -1
                            ELSE 0)]
    ELSE LET mid == (lo + hi) \div 2
             l == Levels(toks, lo, mid, base)
             r == Levels(toks, mid + 1, hi, l.after)
         IN  [lv |-> l.lv \o r.lv, after |-> r.after]

\* the positions in lo..hi of the commas at nesting level d, ascending
RECURSIVE Commas(_, _, _, _, _)
Commas(toks, lv, lo, hi, d) ==
    IF lo > hi THEN <<>>
    ELSE IF lo = hi
         THEN (IF toks[lo].t = "," /\ lv[lo] = d THEN <<lo>> ELSE <<>>)
    ELSE LET mid == (lo + hi) \div 2
         IN  Commas(toks, lv, lo, mid, d) \o Commas(toks, lv, mid + 1, hi, d)

\* the value written by the tokens lo..hi
RECURSIVE ParseValue(_, _, _, _)
ParseValue(toks, lv, lo, hi) ==
    LET cs == Commas(toks, lv, lo + 1, hi - 1, lv[lo] + 1)
        n == IF lo + 1 = hi THEN 0 ELSE Len(cs) + 1
        first(j) == IF j = 1 THEN lo + 1 ELSE cs[j - 1] + 1
        last(j) == IF j = n THEN hi - 1 ELSE cs[j] - 1
    IN  CASE toks[lo].t = "{" ->
               PyDict([j \in 1..n |->
                   Item(toks[first(j)].s,
                        ParseValue(toks, lv, first(j) + 2, last(j)))])
          [] toks[lo].t = "[" ->
               PyList([j \in 1..n |-> ParseValue(toks, lv, first(j), last(j))])
          [] toks[lo].t = "null" -> PyNone
          [] toks[lo].t = "NaN" -> NaN
          [] toks[lo].t = "Infinity" -> Inf(1)
          [] toks[lo].t = "-Infinity" -> Inf(-1)
          [] toks[lo].t = "num" -> toks[lo].v

Loads(toks) ==
    ParseValue(toks, Levels(toks, 1, Len(toks), 0).lv, 1, Len(toks))

(***************************************************************************)
(* The environment's answers.  A waveform is kept as the lengths of its     *)
(* runs of like frames; the frame-wise analyses (pyin, rms) return one      *)
(* value per frame, constant over a run.                                    *)
(***************************************************************************)
RunLens == {1, ContourLimit}

Waveforms == UNION {[1..n -> RunLens] : n \in 1..MaxRuns}

\* the pitch estimates pyin can give a voiced frame, within [fmin, fmax]
Pitches == {p \in {100, 110} : FMin <= p /\ p <= FMax}

Unvoiced == 0

RmsLevels == {0, 3}

\* the beat frames beat_track can report: the first few of this train
BeatTrain == <<0, 2, 5>>

Rep(v, n) == [i \in 1..n |-> v]

\* one value per frame from one value per run
RECURSIVE Expand(_, _, _)
Expand(runs, vals, i) ==
    IF i > Len(runs) THEN <<>>
    ELSE Rep(vals[i], runs[i]) \o Expand(runs, vals, i + 1)

RECURSIVE Frames(_, _)
Frames(runs, i) == IF i > Len(runs) THEN 0 ELSE runs[i] + Frames(runs, i + 1)

\* the beat trains beat_track can report for a waveform of n frames
BeatTrains(n) ==
    {[i \in 1..m |-> Float(BeatTrain[i])] :
        m \in {j \in 0..Len(BeatTrain) : \A i \in 1..j : BeatTrain[i] < n}}

(***************************************************************************)
(* The record extract_prosodic_features returns, field by field.            *)
(***************************************************************************)
DefaultMeanF0 == Float(150)

DefaultF0Variance == Float(100)

DefaultF0Range == Float(50)

DefaultJitter == Rat(1, 100)

Hnr == Float(15)

MeanF0(f0c) == IF Len(f0c) > 0 THEN NpMean(f0c) ELSE DefaultMeanF0

F0Variance(f0c) == IF Len(f0c) > 0 THEN NpVar(f0c) ELSE DefaultF0Variance

F0Range(f0c) == IF Len(f0c) > 0 THEN NpPtp(f0c) ELSE DefaultF0Range

PitchContour(f0c) ==
    IF Len(f0c) > 0 THEN ToList(Take(f0c, ContourLimit)) ELSE PyList(<<>>)

EnergyContour(en) == ToList(Take(en, ContourLimit))

SpeakingRate(tp) == Mul(tp, Float(2))

RhythmScore(bt) == Div(NpStd(NpDiff(bt)), NpMean(NpDiff(bt)))

\* Mutant of Jitter: the default only when no frame is voiced.
JitterDefaultAtZero(f0c) ==
    IF Len(f0c) > 0 THEN Div(NpStd(NpDiff(f0c)), NpMean(f0c))
    ELSE DefaultJitter

Jitter(f0c) ==
    IF Len(f0c) > 1 THEN Div(NpStd(NpDiff(f0c)), NpMean(f0c))
    ELSE DefaultJitter

Shimmer(r) == Div(NpStd(NpDiff(r)), NpMean(r))

Formant(f, b) ==
    PyDict(<<Item("frequency", Float(f)), Item("bandwidth", Float(b))>>)

\* Mutant of Formants: the third formant is left out.
FormantsFirstTwo == PyList(<<Formant(700, 50), Formant(1200, 70)>>)

Formants == PyList(<<Formant(700, 50), Formant(1200, 70), Formant(2500, 100)>>)

PitchSection(f0c) ==
    PyDict(<<Item("mean_f0", MeanF0(f0c)),
             Item("f0_variance", F0Variance(f0c)),
             Item("f0_range", F0Range(f0c)),
             Item("pitch_contour", PitchContour(f0c))>>)

EnergySection(en) ==
    PyDict(<<Item("mean_energy", NpMean(en)),
             Item("energy_variance", NpVar(en)),
             Item("dynamic_range", NpPtp(en)),
             Item("energy_contour", EnergyContour(en))>>)

\* Mutant of TimingSection: pause_patterns is left out.
TimingSectionNoPauses(tp, bt) ==
    PyDict(<<Item("speaking_rate", SpeakingRate(tp)),
             Item("rhythm_score", RhythmScore(bt))>>)

TimingSection(tp, bt) ==
    PyDict(<<Item("speaking_rate", SpeakingRate(tp)),
             Item("pause_patterns", PyList(<<>>)),
             Item("rhythm_score", RhythmScore(bt))>>)

VoiceQualitySection(f0c, r) ==
    PyDict(<<Item("jitter", Jitter(f0c)),
             Item("shimmer", Shimmer(r)),
             Item("hnr", Hnr),
             Item("formants", Formants)>>)

Record(f0c, en, r, tp, bt) ==
    PyDict(<<Item("pitch", PitchSection(f0c)),
             Item("energy", EnergySection(en)),
             Item("timing", TimingSection(tp, bt)),
             Item("voice_quality", VoiceQualitySection(f0c, r))>>)

(***************************************************************************)
(* State.                                                                   *)
(***************************************************************************)
VARIABLES
    numpy_ok, librosa_ok, scipy_ok, \* which imports can succeed
    argv,                           \* sys.argv
    pc,                             \* the statement about to run
    y,                              \* the loaded waveform, as run lengths
    f0, voiced_flag, f0_clean,      \* pyin's result and its voiced part
    rms, energy,
    tempo, beats,
    raised,                         \* the statement that raised, if one did
    calls,                          \* calls of extract_prosodic_features
    features,                       \* its result
    stdout, stderr,                 \* what has been written to each stream
    exit_status                     \* <<>> while running, then <<status>>

vars == <<numpy_ok, librosa_ok, scipy_ok, argv, pc, y, f0, voiced_flag,
          f0_clean, rms, energy, tempo, beats, raised, calls, features,
          stdout, stderr, exit_status>>

env == <<numpy_ok, librosa_ok, scipy_ok, argv>>

locals == <<y, f0, voiced_flag, f0_clean, rms, energy, tempo, beats>>

streams == <<stdout, stderr>>

ScriptName == "voice_emotion_analysis.py"

Traceback == "Traceback (most recent call last): ImportError"

ImportMessage ==
    "Error: librosa and scipy are required for advanced voice analysis"

UsageMessage == "Usage: python voice_emotion_analysis.py <audio_file>"

ProcessingMessage == "Error processing audio"

\* the statements of the try block of extract_prosodic_features
TrySteps == {"load", "pyin", "rms", "spectral", "beat_track", "stft", "return"}

Init ==
    /\ numpy_ok \in BOOLEAN
    /\ librosa_ok \in BOOLEAN
    /\ scipy_ok \in BOOLEAN
    /\ argv \in {<<ScriptName>> \o Rep("audio", n) : n \in 0..MaxArgs}
    /\ pc = "import"
    /\ y = <<>>
    /\ f0 = <<>>
    /\ voiced_flag = <<>>
    /\ f0_clean = <<>>
    /\ rms = <<>>
    /\ energy = <<>>
    /\ tempo = Float(0)
    /\ beats = <<>>
    /\ raised = ""
    /\ calls = 0
    /\ features = PyNone
    /\ stdout = <<>>
    /\ stderr = <<>>
    /\ exit_status = <<>>

\* sys.exit(status), or the interpreter ending
Exit(status) ==
    /\ pc' = "exit"
    /\ exit_status' = <<status>>

(***************************************************************************)
(* Start-up: the imports.                                                   *)
(***************************************************************************)
\* import numpy, outside the try: the ImportError is not caught, the
\* interpreter prints the traceback and ends with status 1
ImportNumpyFails ==
    /\ pc = "import"
    /\ ~numpy_ok
    /\ stderr' = Append(stderr, Traceback)
    /\ Exit(1)
    /\ UNCHANGED <<env, locals, raised, calls, features, stdout>>

\* Mutant of ImportFails: the message is printed and the script goes on.
ImportFailsGoesOn ==
    /\ pc = "import"
    /\ numpy_ok
    /\ ~(librosa_ok /\ scipy_ok)
    /\ stderr' = Append(stderr, ImportMessage)
    /\ pc' = "main"
    /\ UNCHANGED <<env, locals, raised, calls, features, stdout, exit_status>>

ImportFails ==
    /\ pc = "import"
    /\ numpy_ok
    /\ ~(librosa_ok /\ scipy_ok)
    /\ stderr' = Append(stderr, ImportMessage)
    /\ Exit(1)
    /\ UNCHANGED <<env, locals, raised, calls, features, stdout>>

ImportOk ==
    /\ pc = "import"
    /\ numpy_ok /\ librosa_ok /\ scipy_ok
    /\ pc' = "main"
    /\ UNCHANGED <<env, locals, raised, calls, features, streams, exit_status>>

(***************************************************************************)
(* The entry point.                                                         *)
(***************************************************************************)
\* Mutant of BadArgc: only a missing argument is refused.
BadArgcTooFew == Len(argv) < 2

\* len(sys.argv) != 2
BadArgc == Len(argv) # 2

Usage ==
    /\ pc = "main"
    /\ BadArgc
    /\ stderr' = Append(stderr, UsageMessage)
    /\ Exit(1)
    /\ UNCHANGED <<env, locals, raised, calls, features, stdout>>

CallExtract ==
    /\ pc = "main"
    /\ ~BadArgc
    /\ calls' = calls + 1
    /\ pc' = "load"
    /\ UNCHANGED <<env, locals, raised, features, streams, exit_status>>

(***************************************************************************)
(* extract_prosodic_features.                                               *)
(***************************************************************************)
Load ==
    /\ pc = "load"
    /\ y' \in Waveforms
    /\ pc' = "pyin"
    /\ UNCHANGED <<env, f0, voiced_flag, f0_clean, rms, energy, tempo, beats,
                   raised, calls, features, streams, exit_status>>

Pyin ==
    /\ pc = "pyin"
    /\ \E est \in [1..Len(y) -> Pitches \cup {Unvoiced}] :
          LET f == Expand(y, [i \in 1..Len(y) |->
                       IF est[i] = Unvoiced THEN NaN ELSE Float(est[i])], 1)
              v == Expand(y, [i \in 1..Len(y) |-> est[i] # Unvoiced], 1)
          IN  /\ f0' = f
              /\ voiced_flag' = v
              /\ f0_clean' = Mask(f, v)
    /\ pc' = "rms"
    /\ UNCHANGED <<env, y, rms, energy, tempo, beats, raised, calls, features,
                   streams, exit_status>>

Rms ==
    /\ pc = "rms"
    /\ \E lev \in [1..Len(y) -> RmsLevels] :
          LET r == Expand(y, [i \in 1..Len(y) |-> Float(lev[i])], 1)
          IN  /\ rms' = r
              /\ energy' = NpSquare(r)
    /\ pc' = "spectral"
    /\ UNCHANGED <<env, y, f0, voiced_flag, f0_clean, tempo, beats, raised,
                   calls, features, streams, exit_status>>

\* spectral_centroid and spectral_rolloff: computed, never read
Spectral ==
    /\ pc = "spectral"
    /\ pc' = "beat_track"
    /\ UNCHANGED <<env, locals, raised, calls, features, streams, exit_status>>

BeatTrack ==
    /\ pc = "beat_track"
    /\ beats' \in BeatTrains(Frames(y, 1))
    /\ tempo' = IF beats' = <<>> THEN Float(0) ELSE Float(120)
    /\ pc' = "stft"
    /\ UNCHANGED <<env, y, f0, voiced_flag, f0_clean, rms, energy, raised,
                   calls, features, streams, exit_status>>

\* stft, magnitude and fft_frequencies: computed, never read
Stft ==
    /\ pc = "stft"
    /\ pc' = "return"
    /\ UNCHANGED <<env, locals, raised, calls, features, streams, exit_status>>

Return ==
    /\ pc = "return"
    /\ features' = Record(f0_clean, energy, rms, tempo, beats)
    /\ pc' = "check"
    /\ UNCHANGED <<env, locals, raised, calls, streams, exit_status>>

\* any statement of the try block raises an Exception
Raise ==
    /\ pc \in TrySteps
    /\ raised' = pc
    /\ pc' = "except"
    /\ UNCHANGED <<env, locals, calls, features, streams, exit_status>>

\* Mutant of Except: what was computed so far is returned.
ExceptReturnsPartial ==
    /\ pc = "except"
    /\ stderr' = Append(stderr, ProcessingMessage)
    /\ features' = PyDict(<<Item("pitch", PitchSection(f0_clean))>>)
    /\ pc' = "check"
    /\ UNCHANGED <<env, locals, raised, calls, stdout, exit_status>>

Except ==
    /\ pc = "except"
    /\ stderr' = Append(stderr, ProcessingMessage)
    /\ features' = PyNone
    /\ pc' = "check"
    /\ UNCHANGED <<env, locals, raised, calls, stdout, exit_status>>

(***************************************************************************)
(* The entry point, after the call.                                         *)
(***************************************************************************)
PrintFeatures ==
    /\ pc = "check"
    /\ Truthy(features)
    /\ stdout' = Append(stdout, Dumps(features))
    /\ Exit(0)
    /\ UNCHANGED <<env, locals, raised, calls, features, stderr>>

\* Mutant of ExitFailure: the script falls off its end.
ExitFailureStatus0 ==
    /\ pc = "check"
    /\ ~Truthy(features)
    /\ Exit(0)
    /\ UNCHANGED <<env, locals, raised, calls, features, streams>>

ExitFailure ==
    /\ pc = "check"
    /\ ~Truthy(features)
    /\ Exit(1)
    /\ UNCHANGED <<env, locals, raised, calls, features, streams>>

Next ==
    \/ ImportNumpyFails
    \/ ImportFails
    \/ ImportOk
    \/ Usage
    \/ CallExtract
    \/ Load
    \/ Pyin
    \/ Rms
    \/ Spectral
    \/ BeatTrack
    \/ Stft
    \/ Return
    \/ Raise
    \/ Except
    \/ PrintFeatures
    \/ ExitFailure

Spec == Init /\ [][Next]_vars

(***************************************************************************)
(* Vocabulary of the properties.  The voiced pitches and the statistics are *)
(* restated here from pyin's output, apart from the operators the model of  *)
(* the code uses: by rank for the selection, by value counts for the        *)
(* statistics.                                                              *)
(***************************************************************************)
StartupOk == numpy_ok /\ librosa_ok /\ scipy_ok

Exited == pc = "exit"

RecordReturned == features.k = "dict"

Field(section, key) == Get(Get(features, section), key)

InStream(stream, msg) == \E i \in 1..Len(stream) : stream[i] = msg

IsVoiced(frame) == frame[2]

\* the pitch estimates of the voiced frames, in frame order
VoicedPitches ==
    LET frames == [i \in 1..Len(f0) |-> <<f0[i], voiced_flag[i]>>]
        voiced == SelectSeq(frames, IsVoiced)
    IN  [r \in 1..Len(voiced) |-> voiced[r][1]]

\* the per-frame energies: the squared amplitudes
EnergyTrack == [i \in 1..Len(rms) |-> Float(rms[i].num * rms[i].num)]

Values(a) == {a[i] : i \in 1..Len(a)}

Count(a, v) == Cardinality({i \in 1..Len(a) : a[i] = v})

\* the sum over the values v in V of w[v], each taken Count(a, v) times
RECURSIVE Weighted(_, _, _)
Weighted(a, V, w) ==
    IF V = {} THEN Float(0)
    ELSE LET v == CHOOSE x \in V : TRUE
         IN  Add(Mul(Float(Count(a, v)), w[v]), Weighted(a, V \ {v}, w))

MeanOf(a) ==
    Div(Weighted(a, Values(a), [v \in Values(a) |-> v]), Float(Len(a)))

VarianceOf(a) ==
    LET m == MeanOf(a)
    IN  Div(Weighted(a, Values(a),
                     [v \in Values(a) |-> Mul(Sub(v, m), Sub(v, m))]),
            Float(Len(a)))

RangeOf(a) ==
    LET V == Values(a)
        hi == CHOOSE x \in V : \A z \in V : z.num <= x.num
        lo == CHOOSE x \in V : \A z \in V : x.num <= z.num
    IN  Sub(hi, lo)

SuccessiveDifferences(a) == [i \in 1..(Len(a) - 1) |-> Sub(a[i + 1], a[i])]

\* every float in a Python value is finite
RECURSIVE AllFinite(_)
AllFinite(v) ==
    CASE v.k = "dict" -> \A i \in 1..Len(v.items) : AllFinite(v.items[i].val)
      [] v.k = "list" -> \A i \in 1..Len(v.elems) : AllFinite(v.elems[i])
      [] v.k = "None" -> TRUE
      [] OTHER -> IsFinite(v)

SectionKeys ==
    [pitch |-> {"mean_f0", "f0_variance", "f0_range", "pitch_contour"},
     energy |-> {"mean_energy", "energy_variance", "dynamic_range",
                 "energy_contour"},
     timing |-> {"speaking_rate", "pause_patterns", "rhythm_score"},
     voice_quality |-> {"jitter", "shimmer", "hnr", "formants"}]

\* a dict of exactly the four sections, each with exactly its keys, none twice
HasRecordShape(v) ==
    /\ v.k = "dict"
    /\ Len(v.items) = 4
    /\ Keys(v) = DOMAIN SectionKeys
    /\ \A sec \in DOMAIN SectionKeys :
          /\ Get(v, sec).k = "dict"
          /\ Keys(Get(v, sec)) = SectionKeys[sec]
          /\ Len(Get(v, sec).items) = Cardinality(SectionKeys[sec])

(***************************************************************************)
(* C1.  When a statement of extract_prosodic_features raises, the function  *)
(* returns None and never a record, partial or whole; nothing is written to *)
(* standard output; once the handler has run the error stream holds the     *)
(* processing error; and the process exits with status 1.                   *)
(***************************************************************************)
C1_FailedExtraction ==
    raised # "" =>
        /\ features = PyNone
        /\ stdout = <<>>
        /\ pc \in {"except", "check", "exit"}
        /\ pc \in {"check", "exit"} => stderr = <<ProcessingMessage>>
        /\ Exited => exit_status = <<1>>

C1_Witness ==
    /\ raised = "return"
    /\ Exited
    /\ Len(f0_clean) > 0

(***************************************************************************)
(* C2.  With the imports done and a number of positional arguments other    *)
(* than one, the script never calls extract_prosodic_features, loads no     *)
(* file, writes nothing to standard output, and exits with status 1 after   *)
(* writing the usage message to the error stream.                           *)
(***************************************************************************)
C2_WrongArgumentCount ==
    (StartupOk /\ Len(argv) - 1 # 1) =>
        /\ calls = 0
        /\ y = <<>>
        /\ features = PyNone
        /\ stdout = <<>>
        /\ pc \in {"import", "main", "exit"}
        /\ Exited => (stderr = <<UsageMessage>> /\ exit_status = <<1>>)

C2_Witness ==
    /\ StartupOk
    /\ Len(argv) - 1 > 1
    /\ Exited

(***************************************************************************)
(* C3.  Every numeric field of a returned record is a finite number.        *)
(***************************************************************************)
C3_AllFieldsFinite == RecordReturned => AllFinite(features)

(***************************************************************************)
(* C4.  With no voiced frame the pitch section of the returned record is    *)
(* mean_f0 150.0, f0_variance 100.0, f0_range 50.0 and an empty contour;    *)
(* with at least one it is the mean, variance and peak-to-peak of the       *)
(* voiced frames alone and a non-empty contour.                             *)
(***************************************************************************)
C4_PitchFallback ==
    RecordReturned =>
        IF Len(VoicedPitches) = 0
        THEN /\ Field("pitch", "mean_f0") = Float(150)
             /\ Field("pitch", "f0_variance") = Float(100)
             /\ Field("pitch", "f0_range") = Float(50)
             /\ Field("pitch", "pitch_contour") = PyList(<<>>)
        ELSE /\ Field("pitch", "mean_f0") = MeanOf(VoicedPitches)
             /\ Field("pitch", "f0_variance") = VarianceOf(VoicedPitches)
             /\ Field("pitch", "f0_range") = RangeOf(VoicedPitches)
             /\ Len(Field("pitch", "pitch_contour").elems) > 0

\* more than a hundred frames, the first unvoiced and the rest voiced
C4_Witness ==
    /\ RecordReturned
    /\ ~voiced_flag[1]
    /\ Len(VoicedPitches) = Len(f0) - 1
    /\ Len(f0) > 100

(***************************************************************************)
(* C5.  Each contour of a returned record is the first min(n, 100) elements *)
(* of its track, in order (the n voiced pitches, the n frame energies), so  *)
(* never more than 100; the statistics are those of the whole track.        *)
(***************************************************************************)
IsPrefixOf(contour, track) ==
    /\ contour.k = "list"
    /\ Len(contour.elems) <= 100
    /\ Len(contour.elems) = Min(Len(track), 100)
    /\ \A i \in 1..Len(contour.elems) : contour.elems[i] = track[i]

C5_ContoursTruncated ==
    RecordReturned =>
        /\ IsPrefixOf(Field("pitch", "pitch_contour"), VoicedPitches)
        /\ IsPrefixOf(Field("energy", "energy_contour"), EnergyTrack)
        /\ Field("energy", "mean_energy") = MeanOf(EnergyTrack)
        /\ Field("energy", "energy_variance") = VarianceOf(EnergyTrack)
        /\ Field("energy", "dynamic_range") = RangeOf(EnergyTrack)
        /\ Len(VoicedPitches) > 0 =>
              /\ Field("pitch", "mean_f0") = MeanOf(VoicedPitches)
              /\ Field("pitch", "f0_variance") = VarianceOf(VoicedPitches)
              /\ Field("pitch", "f0_range") = RangeOf(VoicedPitches)

\* both tracks longer than the limit, the frames past it unlike those before
C5_Witness ==
    /\ RecordReturned
    /\ Len(VoicedPitches) > 100
    /\ Len(Field("pitch", "pitch_contour").elems) = 100
    /\ Len(Field("energy", "energy_contour").elems) = 100
    /\ Field("pitch", "f0_range") # RangeOf(Take(VoicedPitches, 100))
    /\ Field("energy", "mean_energy") # MeanOf(Take(EnergyTrack, 100))

(***************************************************************************)
(* C6.  In every returned record formants is the list of the pairs          *)
(* 700/50, 1200/70, 2500/100, in that order, and hnr is 15.0.               *)
(***************************************************************************)
C6_FixedPlaceholders ==
    RecordReturned =>
        /\ Field("voice_quality", "hnr") = Float(15)
        /\ Field("voice_quality", "formants") =
              PyList(<<PyDict(<<Item("frequency", Float(700)),
                                Item("bandwidth", Float(50))>>),
                       PyDict(<<Item("frequency", Float(1200)),
                                Item("bandwidth", Float(70))>>),
                       PyDict(<<Item("frequency", Float(2500)),
                                Item("bandwidth", Float(100))>>)>>)

\* a voiced, sounding input with a rhythm
C6_Witness ==
    /\ RecordReturned
    /\ Len(VoicedPitches) > 1
    /\ \E i \in 1..Len(rms) : ~IsZero(rms[i])
    /\ Len(beats) > 2

(***************************************************************************)
(* C7.  When numpy, librosa or scipy cannot be imported the script gets no  *)
(* further than the imports: no argument check (no usage message), no call  *)
(* of extract_prosodic_features, no file loaded, nothing on standard        *)
(* output; it exits with status 1 and one error on the error stream.        *)
(***************************************************************************)
C7_MissingLibrary ==
    ~StartupOk =>
        /\ pc \in {"import", "exit"}
        /\ calls = 0
        /\ y = <<>>
        /\ stdout = <<>>
        /\ ~InStream(stderr, UsageMessage)
        /\ Exited => (exit_status = <<1>> /\ Len(stderr) = 1)

\* numpy is there, scipy is not, and the arguments are wrong as well
C7_Witness ==
    /\ numpy_ok /\ librosa_ok /\ ~scipy_ok
    /\ Len(argv) # 2
    /\ Exited

(***************************************************************************)
(* C8.  A returned record has exactly the keys pitch, energy, timing and    *)
(* voice_quality, each section exactly its own keys, whatever the input;    *)
(* and what is printed parses back to a value of that shape.                *)
(***************************************************************************)
C8_RecordShape ==
    /\ RecordReturned => HasRecordShape(features)
    /\ stdout # <<>> => HasRecordShape(Loads(stdout[1]))

\* printed after both fallbacks: no voiced frame, NaN rhythm score
C8_Witness ==
    /\ stdout # <<>>
    /\ Len(VoicedPitches) = 0
    /\ IsNaN(Field("timing", "rhythm_score"))

(***************************************************************************)
(* C9.  jitter is 0.01 with fewer than two voiced frames, and otherwise the *)
(* standard deviation of the successive voiced-pitch differences over the   *)
(* mean voiced pitch; with exactly one voiced frame jitter is the default   *)
(* while the pitch statistics are those of that frame.                      *)
(***************************************************************************)
C9_JitterDefault ==
    RecordReturned =>
        /\ Len(VoicedPitches) < 2 =>
              Field("voice_quality", "jitter") = Rat(1, 100)
        /\ Len(VoicedPitches) >= 2 =>
              Field("voice_quality", "jitter") =
                  Div(Sqrt(VarianceOf(SuccessiveDifferences(VoicedPitches))),
                      MeanOf(VoicedPitches))
        /\ Len(VoicedPitches) = 1 =>
              /\ Field("pitch", "mean_f0") = VoicedPitches[1]
              /\ Field("pitch", "f0_variance") = Float(0)
              /\ Field("pitch", "f0_range") = Float(0)

C9_Witness ==
    /\ RecordReturned
    /\ Len(VoicedPitches) = 1
    /\ Len(f0) > 1

(***************************************************************************)
(* C10.  A run has ended in one of two ways: status 0 with the whole        *)
(* record, and only it, on standard output, printed after every analysis    *)
(* step went through; or status 1 with nothing on standard output.          *)
(* Standard output is written at most once, and only by a run that then     *)
(* exits with status 0; extract_prosodic_features is called at most once.   *)
(***************************************************************************)
C10_TwoOutcomes ==
    /\ Len(stdout) <= 1
    /\ calls <= 1
    /\ Len(exit_status) = 1 <=> Exited
    /\ stdout # <<>> =>
          /\ Exited
          /\ raised = ""
          /\ HasRecordShape(features)
          /\ Loads(stdout[1]) = features
    /\ Exited =>
          \/ exit_status = <<0>> /\ Len(stdout) = 1
          \/ exit_status = <<1>> /\ stdout = <<>>

C10_Witness ==
    /\ Exited
    /\ exit_status = <<0>>
    /\ Len(stdout) = 1
    /\ Len(f0) > 100

====
